---------------------------- MODULE Spec2Model ----------------------------
(***************************************************************************)
(* Authentication and session lifecycle of the neatspace backend:          *)
(* AuthService (internal/application/services/auth.go) over the Postgres   *)
(* AuthRepository, the UserService and the JWT generator (pkg/apputils).   *)
(*                                                                         *)
(* Every request is one call of a service method, executed by a request    *)
(* process.  A call advances one repository statement at a time; the code  *)
(* uses no transaction, so the statements of concurrent calls interleave.  *)
(* Each repository statement and the mail hand-off may fail (a storage or  *)
(* SMTP error), a bounded number of times per run.                         *)
(***************************************************************************)
EXTENDS Integers, FiniteSets, Sequences, TLC

(**************************** bounds of the model **************************)
MaxCalls == 3        \* service calls started in one run
MaxFaults == 1       \* storage / mail errors injected in one run
MaxMinted == 2       \* one-time tokens minted in one run
MaxUuids == 4        \* session and refresh-token ids generated in one run
MaxTime == 901       \* the clock stops advancing here (seconds)
MaxAttempts == 17    \* connection attempts of one start-up that may fail

(**************************** program constants ****************************)
OneTimeTokenTTL == 900           \* 15 * time.Minute, in seconds
AccessTokenExpiry == 86400       \* 24 * time.Hour, in seconds
RefreshTokenExpiry == 604800     \* 7 * 24 * time.Hour, in seconds
StatusOK == 200
StatusBadRequest == 400
StatusUnauthorized == 401
StatusNotFound == 404
StatusInternalServerError == 500

Procs == {"p1", "p2"}
Users == {"u1", "u2"}
NoUser == "nil"
NoTime == -1
\* granularity of the modelled clock: one step takes a token past its expiry
TickStep == OneTimeTokenTTL + 1
OneTimeTokenSubjectEmailVerification == "email_verification"
DefaultAudience == "client-app"
Issuer == "https://neatspace.test"
SecretKey == "k1"
Passwords == {"", "pw-right", "pw-wrong"}
UnknownEmail == "nobody@x.io"

\* users.email of the two user rows (migration: email is UNIQUE)
EmailOf(u) == IF u = "u1" THEN "a@x.io" ELSE "b@x.io"
Emails == {EmailOf(u) : u \in Users} \cup {UnknownEmail}

\* UserRepository.GetUserByEmail: the row with that email, or nil (the query
\* compares LOWER(email); the emails of the model are all lower case)
GetUserByEmail(email) ==
    IF \E u \in Users : EmailOf(u) = email
    THEN CHOOSE u \in Users : EmailOf(u) = email
    ELSE NoUser

(******************************* errors ************************************)
\* a Go error: a *fiber.Error carries a status code, any other error does not
NoErr == [fiber |-> FALSE, code |-> 0, msg |-> "nil"]
FiberError(code, msg) == [fiber |-> TRUE, code |-> code, msg |-> msg]
PlainError(msg) == [fiber |-> FALSE, code |-> 0, msg |-> msg]
ErrInvalidCredentials == FiberError(StatusUnauthorized, "invalid credentials")

\* handler.Error: the status the caller sees for an error (200 for nil)
Error(err) ==
    IF err = NoErr THEN [status |-> StatusOK, msg |-> "ok"]
    ELSE [status |-> IF err.fiber THEN err.code ELSE StatusInternalServerError,
          msg |-> err.msg]

(******************************* hashing ***********************************)
\* hex.EncodeToString(sha256.Sum256([]byte(s))): injective on the model's strings
Sha256Hex(s) == <<"sha256", s>>
\* JWTGenerator.GetHash
GetHash(s) == Sha256Hex(s)
\* []byte(refreshTokenHash): the bytes of the hex string
Bytes(s) == <<"bytes", s>>
\* PasswordHasher.Hash / Validate: salted one-way hash, self-contained check
HashPassword(pw) == <<"kdf", pw>>
ValidatePasswordHash(pw, hash) == hash = HashPassword(pw)
NoPassword == <<"none", "">>

VARIABLES
    now,            \* the wall clock, seconds
    users,          \* users[u].verifiedAt: users.email_verified_at, NoTime = NULL
    passwords,      \* user_passwords: password_hash per user, NoPassword = no row
    tokens,         \* rows of one_time_tokens
    sessions,       \* rows of sessions
    refreshTokens,  \* rows of refresh_tokens
    mails,          \* verification mails handed to the SMTP server
    call,           \* per request process: the running call and its locals
    minted,         \* number of one-time tokens generated so far
    uuids,          \* number of session / refresh-token uuids generated so far
    calls,          \* number of calls started so far
    faults,         \* number of injected storage / mail errors so far
    succeeded,      \* raw secrets for which ValidateEmailVerification returned nil
    issued,         \* log of the minted one-time tokens: raw secret, row id, time, expiry
    superseded,     \* ids of the token rows a later InitiateEmailVerification read
    firstTried      \* raw secrets for which a ValidateEmailVerification has started

vars == <<now, users, passwords, tokens, sessions, refreshTokens, mails, call,
          minted, uuids, calls, faults, succeeded, issued, superseded, firstTried>>

db == <<users, passwords, tokens, sessions, refreshTokens>>
hist == <<succeeded, issued, superseded, firstTried>>

\* the locals of a request process that runs no call
Idle ==
    [op |-> "none", pc |-> "idle", email |-> "", secret |-> 0, password |-> "",
     user |-> NoUser, verifiedAt |-> NoTime, t0 |-> 0, todo |-> {},
     existing |-> {}, newTok |-> 0, tok |-> {}, deleted |-> FALSE,
     faulted |-> FALSE, afterSuccess |-> FALSE, first |-> FALSE,
     fresh |-> FALSE, startedAt |-> 0, validated |-> FALSE,
     cfgMaxRetries |-> 0, maxRetries |-> 0, attempt |-> 0, failed |-> 0,
     delays |-> <<>>, conn |-> FALSE,
     codecKey |-> "", payload |-> <<>>, subject |-> <<>>, claims |-> <<>>,
     header |-> <<>>, locals |-> <<>>, next |-> FALSE,
     query |-> <<>>, pagination |-> <<>>,
     sessionId |-> 0, jti |-> 0, refreshStr |-> {}, accessStr |-> {},
     tokenExpiry |-> NoTime, nSess |-> 0, nRef |-> 0, err |-> NoErr]

Init ==
    /\ now = 0
    /\ users = [u \in Users |-> [verifiedAt |-> NoTime]]
    /\ passwords = [u \in Users |-> NoPassword]
    /\ tokens = {}
    /\ sessions = {}
    /\ refreshTokens = {}
    /\ mails = {}
    /\ call = [p \in Procs |-> Idle]
    /\ minted = 0
    /\ uuids = 0
    /\ calls = 0
    /\ faults = 0
    /\ succeeded = {}
    /\ issued = {}
    /\ superseded = {}
    /\ firstTried = {}

(***************************** environment *********************************)
\* the outcomes of one repository statement or mail hand-off: TRUE = no error
Outcomes == IF faults < MaxFaults THEN {TRUE, FALSE} ELSE {TRUE}
Count(ok) == IF ok THEN faults ELSE faults + 1

\* a slip of the reflection: every user counts as verified
isEmailVerified_Always(verifiedAt) == TRUE

\* AuthService.isEmailVerified on a *UserEntity: EmailVerifiedAt is non-nil
isEmailVerified(verifiedAt) == verifiedAt # NoTime

\* the call of p ends with error err (nil = success)
Finish(p, err) == [call[p] EXCEPT !.pc = "done", !.err = err]

\* time passes
Tick ==
    /\ now + TickStep <= MaxTime
    /\ now' = now + TickStep
    /\ UNCHANGED <<db, mails, call, minted, uuids, calls, faults, hist>>

\* the response has been written; the request process is free again
Return(p) ==
    /\ call[p].pc = "done"
    /\ call' = [call EXCEPT ![p] = Idle]
    /\ UNCHANGED <<now, db, mails, minted, uuids, calls, faults, hist>>

(********************* InitiateEmailVerification ***************************)
\* the token belongs to (userID, email_verification)
ForUserSubject(t, u) ==
    t.user # NoUser /\ t.user = u /\ t.subject = OneTimeTokenSubjectEmailVerification

\* the loop condition of auth.go:103: a still valid prior token at time t0
StillValid(t, u, t0) == ForUserSubject(t, u) /\ t0 < t.expiresAt

\* a slip of the delete loop: only the still valid prior tokens are retired
TokensToDelete_OnlyValid(u, t0) == {t \in tokens : StillValid(t, u, t0)}

\* the loop condition of auth.go:125: every stored token of (user, subject),
\* expired or not
TokensToDelete(u, t0) == {t \in tokens : ForUserSubject(t, u)}

\* where the call continues after the lookup of a prior token
AfterUpdate(c) == IF c.todo # {} THEN "i_delete" ELSE "i_create"

\* a slip of the entry checks: the already-verified test is left out
InitiateRejection_NoVerifiedTest(u) ==
    IF u = NoUser THEN FiberError(StatusNotFound, "user not found") ELSE NoErr

\* auth.go:84-90: the error the entry checks return for the looked-up user,
\* nil when the call goes on
InitiateRejection(u) ==
    IF u = NoUser THEN FiberError(StatusNotFound, "user not found")
    ELSE IF isEmailVerified(users[u].verifiedAt)
         THEN FiberError(StatusBadRequest, "email already verified")
    ELSE NoErr

\* auth.go:79-90: look the user up, 404 if absent, 400 if already verified
InitiateEmailVerification(p, email) ==
    /\ call[p].pc = "idle"
    /\ calls < MaxCalls
    /\ minted < MaxMinted
    /\ calls' = calls + 1
    /\ \E ok \in Outcomes :
        /\ faults' = Count(ok)
        /\ LET u == GetUserByEmail(email)
               c == [Idle EXCEPT !.op = "initiate", !.email = email,
                                 !.faulted = ~ok]
           IN call' = [call EXCEPT ![p] =
                IF ~ok THEN [c EXCEPT !.pc = "done",
                     !.err = FiberError(StatusInternalServerError, "error getting user by email")]
                ELSE IF u = NoUser THEN [c EXCEPT !.pc = "done",
                     !.err = InitiateRejection(u)]
                ELSE IF InitiateRejection(u) # NoErr THEN [c EXCEPT !.pc = "done",
                     !.user = u, !.verifiedAt = users[u].verifiedAt,
                     !.err = InitiateRejection(u)]
                ELSE [c EXCEPT !.pc = "i_find", !.user = u]]
    /\ UNCHANGED <<now, db, mails, minted, uuids, hist>>

\* auth.go:95-107: read every one-time token, pick a still valid prior one
InitiateFindAll(p) ==
    /\ call[p].pc = "i_find"
    /\ \E ok \in Outcomes :
        /\ faults' = Count(ok)
        /\ IF ~ok
           THEN /\ call' = [call EXCEPT ![p] =
                        [Finish(p, PlainError("query failed")) EXCEPT !.faulted = TRUE]]
                /\ UNCHANGED superseded
           ELSE LET u == call[p].user
                    valid == {t \in tokens : StillValid(t, u, now)}
                    mine == TokensToDelete(u, now)
                IN /\ \E ex \in (IF valid = {} THEN {{}} ELSE {{t} : t \in valid}) :
                        call' = [call EXCEPT ![p] =
                            [call[p] EXCEPT !.t0 = now,
                                 !.existing = ex, !.todo = {t.id : t \in mine},
                                 !.pc = IF ex # {} THEN "i_update"
                                        ELSE IF mine # {} THEN "i_delete"
                                        ELSE "i_create"]]
                   /\ superseded' = superseded \cup {t.id : t \in mine}
    /\ UNCHANGED <<now, db, mails, minted, uuids, calls, succeeded, issued, firstTried>>

\* auth.go:109-114 with AuthRepository.UpdateOneTImeTokenLastSentAt
InitiateUpdateLastSent(p) ==
    /\ call[p].pc = "i_update"
    /\ \E ok \in Outcomes :
        /\ faults' = Count(ok)
        /\ LET id == (CHOOSE t \in call[p].existing : TRUE).id
               rows == {t \in tokens : t.id = id}
           IN IF ~ok
              THEN /\ call' = [call EXCEPT ![p] =
                        [Finish(p, PlainError("exec failed")) EXCEPT !.faulted = TRUE]]
                   /\ UNCHANGED tokens
              ELSE IF rows = {}
              THEN /\ call' = [call EXCEPT ![p] =
                        Finish(p, PlainError("no one-time token found with id"))]
                   /\ UNCHANGED tokens
              ELSE /\ tokens' = (tokens \ rows) \cup
                            {[t EXCEPT !.lastSentAt = call[p].t0] : t \in rows}
                   /\ call' = [call EXCEPT ![p] =
                        [call[p] EXCEPT !.pc = AfterUpdate(call[p])]]
    /\ UNCHANGED <<now, users, passwords, sessions, refreshTokens, mails,
                   minted, uuids, calls, hist>>

\* AuthRepository.DeleteOneTimeToken: DELETE ... WHERE id = $1; an error when
\* the statement fails or affects no row.  TRUE iff the delete returns nil.
DeleteSucceeds(ok, id) == ok /\ \E t \in tokens : t.id = id
AfterDelete(id) == {t \in tokens : t.id # id}

\* auth.go:124-130: delete every token of the snapshot for (user, subject)
InitiateDelete(p) ==
    /\ call[p].pc = "i_delete"
    /\ \E id \in call[p].todo : \E ok \in Outcomes :
        /\ faults' = Count(ok)
        /\ tokens' = IF ok THEN AfterDelete(id) ELSE tokens
        /\ call' = [call EXCEPT ![p] =
              IF DeleteSucceeds(ok, id)
              THEN [call[p] EXCEPT !.todo = call[p].todo \ {id},
                        !.pc = IF call[p].todo = {id} THEN "i_create" ELSE "i_delete"]
              ELSE [Finish(p, PlainError("no one-time token found with id"))
                        EXCEPT !.faulted = ~ok]]
    /\ UNCHANGED <<now, users, passwords, sessions, refreshTokens, mails,
                   minted, uuids, calls, hist>>

\* a slip of the issuance: the lifetime is left out of expires_at
NewOneTimeToken_NoTTL(id, u, raw, t0) ==
    [id |-> id, user |-> u, subject |-> OneTimeTokenSubjectEmailVerification,
     hash |-> Sha256Hex(raw), expiresAt |-> t0, lastSentAt |-> t0]

\* a slip of the issuance: the raw secret is stored instead of its hash
NewOneTimeToken_RawStored(id, u, raw, t0) ==
    [id |-> id, user |-> u, subject |-> OneTimeTokenSubjectEmailVerification,
     hash |-> <<"raw", raw>>,
     expiresAt |-> t0 + OneTimeTokenTTL, lastSentAt |-> t0]

\* auth.go:116-122 and 139-149: the row of the new token
NewOneTimeToken(id, u, raw, t0) ==
    [id |-> id, user |-> u, subject |-> OneTimeTokenSubjectEmailVerification,
     hash |-> Sha256Hex(raw),
     expiresAt |-> t0 + OneTimeTokenTTL, lastSentAt |-> t0]

\* auth.go:116-152: mint the secret and insert its row
InitiateCreate(p) ==
    /\ call[p].pc = "i_create"
    /\ minted < MaxMinted
    /\ minted' = minted + 1
    /\ \E ok \in Outcomes :
        /\ faults' = Count(ok)
        /\ LET raw == minted + 1
               row == NewOneTimeToken(minted + 1, call[p].user, raw, call[p].t0)
           IN IF ok
              THEN /\ tokens' = tokens \cup {row}
                   /\ issued' = issued \cup
                        {[raw |-> raw, id |-> row.id, user |-> row.user,
                          t0 |-> call[p].t0, expiresAt |-> row.expiresAt]}
                   /\ call' = [call EXCEPT ![p] =
                        [call[p] EXCEPT !.newTok = row.id, !.secret = raw, !.pc = "i_mail"]]
              ELSE /\ UNCHANGED <<tokens, issued>>
                   /\ call' = [call EXCEPT ![p] =
                        [Finish(p, PlainError("exec failed")) EXCEPT !.faulted = TRUE]]
    /\ UNCHANGED <<now, users, passwords, sessions, refreshTokens, mails,
                   uuids, calls, succeeded, superseded, firstTried>>

\* a slip of the mail step: delivery is fire-and-forget, its error is dropped
sendVerificationEmail_FireAndForget(ok) == NoErr

\* auth.go:459-465: the mailer is set (NewAuthDomain refuses a nil one), so the
\* result is the error of Mailer.SendMail; ok = SendMail returned nil
sendVerificationEmail(ok) == IF ok THEN NoErr ELSE PlainError("smtp failed")

\* auth.go:154-158 with sendVerificationEmail: the link carries the raw secret
InitiateSendMail(p) ==
    /\ call[p].pc = "i_mail"
    /\ \E ok \in Outcomes :
        /\ faults' = Count(ok)
        /\ mails' = IF ok
                    THEN mails \cup {[to |-> call[p].email, token |-> call[p].secret]}
                    ELSE mails
        /\ call' = [call EXCEPT ![p] =
                [Finish(p, sendVerificationEmail(ok)) EXCEPT !.faulted = ~ok]]
    /\ UNCHANGED <<now, db, minted, uuids, calls, hist>>

(********************* ValidateEmailVerification ***************************)
\* AuthRepository.GetOneTimeTokenByTokenHash: the rows with that token_hash
GetOneTimeTokenByTokenHash(tokenHash) == {t \in tokens : t.hash = tokenHash}

\* a slip of the expiry test: a minute of grace after expires_at
Expired_Grace(t, time) == t.expiresAt + 60 < time

\* auth.go:174: the token is rejected as expired at time t
Expired(t, time) == t.expiresAt < time

\* the raw secret was mailed by a successful InitiateEmailVerification, no
\* later InitiateEmailVerification has read its row, and it has not expired
Fresh(raw) ==
    \E i \in issued :
        /\ i.raw = raw
        /\ \E m \in mails : m.token = raw
        /\ i.id \notin superseded
        /\ now < i.expiresAt

\* auth.go:162-181: hash the secret, look the row up, 401 unless it is a
\* stored, unexpired token of a user
ValidateEmailVerification(p, raw) ==
    /\ call[p].pc = "idle"
    /\ calls < MaxCalls
    /\ calls' = calls + 1
    /\ firstTried' = firstTried \cup {raw}
    /\ \E ok \in Outcomes :
        /\ faults' = Count(ok)
        /\ LET rows == GetOneTimeTokenByTokenHash(Sha256Hex(raw))
               c == [Idle EXCEPT !.op = "validate", !.secret = raw, !.faulted = ~ok,
                                 !.startedAt = now,
                                 !.afterSuccess = (raw \in succeeded),
                                 !.first = (raw \notin firstTried),
                                 !.fresh = Fresh(raw)]
           IN call' = [call EXCEPT ![p] =
                IF ~ok THEN [c EXCEPT !.pc = "done", !.err = PlainError("query failed")]
                ELSE IF rows = {} THEN [c EXCEPT !.pc = "done",
                     !.err = FiberError(StatusUnauthorized, "one time token is not found")]
                ELSE LET t == CHOOSE r \in rows : TRUE
                     IN IF Expired(t, now) THEN [c EXCEPT !.pc = "done", !.tok = {t},
                             !.err = FiberError(StatusUnauthorized, "one time token is expired")]
                        ELSE IF t.user = NoUser THEN [c EXCEPT !.pc = "done", !.tok = {t},
                             !.err = FiberError(StatusUnauthorized, "token is not related to any user")]
                        ELSE [c EXCEPT !.pc = "v_delete", !.tok = {t}, !.user = t.user]]
    /\ UNCHANGED <<now, db, mails, minted, uuids, succeeded, issued, superseded>>

\* a slip of the cleanup: the error of the delete is returned to the caller
AfterValidateDelete_Propagated(c, deleted) ==
    IF deleted THEN [c EXCEPT !.pc = "v_mark", !.deleted = TRUE]
    ELSE [c EXCEPT !.pc = "done", !.err = PlainError("no one-time token found with id")]

\* auth.go:183 `_ = s.authRepo.DeleteOneTimeToken(...)`: whatever the delete
\* returns, the call goes on to mark the email verified
AfterValidateDelete(c, deleted) == [c EXCEPT !.pc = "v_mark", !.deleted = deleted]

\* auth.go:183: the delete of the consumed token; its error is discarded
ValidateDelete(p) ==
    /\ call[p].pc = "v_delete"
    /\ \E ok \in Outcomes :
        /\ faults' = Count(ok)
        /\ LET id == (CHOOSE t \in call[p].tok : TRUE).id
           IN /\ tokens' = IF ok THEN AfterDelete(id) ELSE tokens
              /\ call' = [call EXCEPT ![p] =
                    AfterValidateDelete(call[p], DeleteSucceeds(ok, id))]
    /\ UNCHANGED <<now, users, passwords, sessions, refreshTokens, mails,
                   minted, uuids, calls, hist>>

\* UserRepository.UpdateUserEmailVerifiedAt: email_verified_at := t for the row
UpdateUserEmailVerifiedAt(userID, t) == [users EXCEPT ![userID].verifiedAt = t]

\* UserService.MarkEmailVerified: the update with time.Now(); a storage error
\* leaves the row as it is and becomes a 500 fiber error
MarkEmailVerified(ok, userID) ==
    IF ok THEN UpdateUserEmailVerifiedAt(userID, now) ELSE users

\* auth.go:185-189: mark the owner's email verified and return
ValidateMark(p) ==
    /\ call[p].pc = "v_mark"
    /\ \E ok \in Outcomes :
        /\ faults' = Count(ok)
        /\ users' = MarkEmailVerified(ok, call[p].user)
        /\ call' = [call EXCEPT ![p] =
              IF ok THEN Finish(p, NoErr)
              ELSE [Finish(p, FiberError(StatusInternalServerError,
                               "error updating email verified")) EXCEPT !.faulted = TRUE]]
        /\ succeeded' = IF ok THEN succeeded \cup {call[p].secret} ELSE succeeded
    /\ UNCHANGED <<now, passwords, tokens, sessions, refreshTokens, mails,
                   minted, uuids, calls, issued, superseded, firstTried>>

\* the raw secrets a caller may present: the mailed ones and a bogus one (0)
RawSecrets == {0} \cup {m.token : m \in mails}

(***************************** JWT generator *******************************)
\* uuid.UUID.String()
String(id) == <<"uuid", id>>

\* jwt.New(): a token without claims
EmptyToken == [k \in {} |-> 0]

\* token.Set(k, v) for a claim whose value the library accepts
Set(token, k, v) == [x \in DOMAIN token \cup {k} |-> IF x = k THEN v ELSE token[x]]

\* the Go values handed to a NumericDate claim (iat, exp)
TimeValue(t) == [kind |-> "time", v |-> t]
DurationValue(d) == [kind |-> "duration", v |-> d]

\* token.Set(jwt.IssuedAtKey / jwt.ExpirationKey, v): jwx accepts a time.Time
\* (or a plain number) and returns an error for any other type; the callers
\* discard that error, so the claim is then simply not set
SetNumericDate(token, k, val) ==
    IF val.kind = "time" THEN Set(token, k, val.v) ELSE token

\* the values json.Unmarshal puts into the map of jwt.go:63-66
JSONString(s) == <<"str", s>>
JSONNumber(n) == <<"num", n>>

\* the registered claims jwx keeps in typed fields
StringClaims == {"iss", "sub", "jti"}
NumericDateClaims == {"exp", "iat", "nbf"}

\* token.Set(k, v) returns nil for the unmarshalled value v: a string claim
\* takes a string only, a NumericDate claim a number only (a string must parse
\* as an integer; the model's strings do not), any other name is a private
\* claim and takes every value
SetAccepts(k, v) ==
    IF k \in StringClaims THEN v[1] = "str"
    ELSE IF k \in NumericDateClaims THEN v[1] = "num"
    ELSE TRUE

\* what the claim then holds: a NumericDate holds the time of the number
SetStores(k, v) == IF k \in NumericDateClaims THEN v[2] ELSE v

\* the loop of jwt.go:67-69 over the marshalled payload: every key is Set,
\* registered names included, over what Sign has set before; the error of a
\* refused Set is discarded and the claim keeps what it had
SetAll(token, payload) ==
    LET taken == {k \in DOMAIN payload : SetAccepts(k, payload[k])}
    IN [x \in DOMAIN token \cup taken |->
            IF x \in taken THEN SetStores(x, payload[x]) ELSE token[x]]

\* jwt.Sign with HS256: the compact token is the claims with their MAC
Mac(key, claims) == <<"HS256", key, claims>>
Signed(claims, key) == [claims |-> claims, sig |-> Mac(key, claims)]

\* a slip of the payload: the session id is left out
AccessTokenPayload_NoSid(userID, email, sid) ==
    [k \in {"user_id", "email"} |-> IF k = "user_id" THEN String(userID) ELSE email]

\* dto.AccessTokenPayload as filled at auth.go:283-287, marshalled to JSON
AccessTokenPayload(userID, email, sid) ==
    [k \in {"user_id", "email", "sid"} |->
        IF k = "user_id" THEN String(userID)
        ELSE IF k = "email" THEN email ELSE String(sid)]

\* JWTGenerator.Sign at time t (jwt.go:45-76): exp is given the configured
\* time.Duration itself
SignClaims(payload, subject, t) ==
    LET t1 == Set(EmptyToken, "iss", Issuer)
        t2 == SetNumericDate(t1, "iat", TimeValue(t))
        t3 == SetNumericDate(t2, "exp", DurationValue(AccessTokenExpiry))
        t4 == Set(t3, "typ", JSONString("access"))
        t5 == IF subject # <<>> THEN Set(t4, "sub", subject) ELSE t4
    IN SetAll(t5, payload)

\* Sign of the generator configured with SecretKey
Sign(payload, subject, t) == Signed(SignClaims(payload, subject, t), SecretKey)

\* Sign of a generator configured with any key (jwt.go:46-48, 71-75): an
\* error when the key is empty
SignWithKey(key, payload, subject, t) ==
    IF Len(key) = 0 THEN [ok |-> FALSE, str |-> {}]
    ELSE [ok |-> TRUE, str |-> {Signed(SignClaims(payload, subject, t), key)}]

\* JWTGenerator.GenerateRefreshTokenJWT at time t (jwt.go:80-99)
RefreshClaims(uid, audience, refreshTokenID, t) ==
    LET t1 == Set(EmptyToken, "iss", Issuer)
        t2 == SetNumericDate(t1, "iat", TimeValue(t))
        t3 == SetNumericDate(t2, "exp", TimeValue(t + RefreshTokenExpiry))
        t4 == Set(t3, "sub", uid)
        t5 == Set(t4, "aud", audience)
        t6 == Set(t5, "typ", JSONString("refresh"))
    IN Set(t6, "jti", refreshTokenID)

\* GenerateRefreshTokenJWT of the generator configured with SecretKey
GenerateRefreshTokenJWT(uid, audience, refreshTokenID, t) ==
    Signed(RefreshClaims(uid, audience, refreshTokenID, t), SecretKey)

\* GenerateRefreshTokenJWT of a generator configured with any key
\* (jwt.go:81-83, 94-98): an error when the key is empty
GenerateRefreshTokenJWTWithKey(key, uid, audience, refreshTokenID, t) ==
    IF Len(key) = 0 THEN [ok |-> FALSE, str |-> {}]
    ELSE [ok |-> TRUE, str |-> {Signed(RefreshClaims(uid, audience, refreshTokenID, t), key)}]

\* JWTGenerator.ParseAndValidate at time t (jwt.go:103-118): verify the MAC,
\* then validate exp and iat when present
ParseAndValidate(tokenString, key, t) ==
    LET c == tokenString.claims
    IN IF tokenString.sig # Mac(key, c) THEN [ok |-> FALSE, claims |-> EmptyToken]
       ELSE IF "exp" \in DOMAIN c /\ ~(t < c["exp"]) THEN [ok |-> FALSE, claims |-> EmptyToken]
       ELSE IF "iat" \in DOMAIN c /\ t < c["iat"] THEN [ok |-> FALSE, claims |-> EmptyToken]
       ELSE [ok |-> TRUE, claims |-> c]

(***************************** SignInWithEmail *****************************)
\* a slip of the credential checks: the unverified case gets its own message
CredentialError_Leaky(userFound, pwOk, verified) ==
    IF ~userFound THEN ErrInvalidCredentials
    ELSE IF ~pwOk THEN ErrInvalidCredentials
    ELSE IF ~verified THEN FiberError(StatusUnauthorized, "email is not verified")
    ELSE NoErr

\* auth.go:235-246: the error of the three credential checks, nil if all pass
CredentialError(userFound, pwOk, verified) ==
    IF ~userFound THEN ErrInvalidCredentials
    ELSE IF ~pwOk THEN ErrInvalidCredentials
    ELSE IF ~verified THEN ErrInvalidCredentials
    ELSE NoErr

\* AuthService.validatePassword (auth.go:336-347): ok is FALSE when the
\* repository fails; TRUE iff the row exists and the hasher accepts the password
validatePassword(ok, userID, password) ==
    /\ ok
    /\ passwords[userID] # NoPassword
    /\ ValidatePasswordHash(password, passwords[userID])

\* auth.go:227-237: reject empty input, look the user up
SignInWithEmail(p, email, password) ==
    /\ call[p].pc = "idle"
    /\ calls < MaxCalls
    /\ calls' = calls + 1
    /\ LET c == [Idle EXCEPT !.op = "signin", !.email = email, !.password = password,
                             !.startedAt = now]
       IN IF email = "" \/ password = ""
          THEN /\ call' = [call EXCEPT ![p] =
                    [c EXCEPT !.pc = "done", !.err = ErrInvalidCredentials]]
               /\ UNCHANGED faults
          ELSE \E ok \in Outcomes :
                /\ faults' = Count(ok)
                /\ LET u == GetUserByEmail(email)
                   IN call' = [call EXCEPT ![p] =
                        IF ~ok THEN [c EXCEPT !.pc = "done", !.faulted = TRUE,
                             !.err = FiberError(StatusInternalServerError,
                                                "error getting user by email")]
                        ELSE IF CredentialError(u # NoUser, TRUE, TRUE) # NoErr
                        THEN [c EXCEPT !.pc = "done",
                             !.err = CredentialError(u # NoUser, TRUE, TRUE)]
                        ELSE [c EXCEPT !.pc = "s_password", !.user = u,
                                       !.verifiedAt = users[u].verifiedAt]]
    /\ UNCHANGED <<now, db, mails, minted, uuids, hist>>

\* auth.go:239-246: check the password against the stored hash, then the
\* verified marker of the user row read before
SignInValidatePassword(p) ==
    /\ call[p].pc = "s_password"
    /\ \E ok \in Outcomes :
        /\ faults' = Count(ok)
        /\ LET e == CredentialError(TRUE,
                        validatePassword(ok, call[p].user, call[p].password),
                        isEmailVerified(call[p].verifiedAt))
           IN call' = [call EXCEPT ![p] =
                IF e # NoErr
                THEN [Finish(p, e) EXCEPT !.faulted = ~ok]
                ELSE [call[p] EXCEPT !.pc = "s_session", !.validated = TRUE]]
    /\ UNCHANGED <<now, db, mails, minted, uuids, calls, hist>>

\* the SessionEntity of auth.go:273-278
SessionRow(id, userID, tokenHash, t) ==
    [id |-> id, user |-> userID, tokenHash |-> tokenHash,
     expiresAt |-> t + AccessTokenExpiry]

\* AuthService.CreateSession (auth.go:192-207): the checks before the insert
CreateSessionValid(row, t) == row.user # NoUser /\ ~(row.expiresAt < t)

\* a slip of the error returns: a failed step is reported as bad credentials
SignInStepError_AsCredentials(step) == ErrInvalidCredentials

\* auth.go:264-302 `return nil, err`: the error of a failed step after the
\* credential checks is returned as it is; none of them is a *fiber.Error
\* (uuid, fmt.Errorf of the JWT generator, errors.New, the pgx driver)
SignInStepError(step) == PlainError(step)

\* the ways the minting of the refresh token and the session insert end
SessionOutcomes == IF faults < MaxFaults THEN {"ok", "mint_failed", "session_failed"}
                   ELSE {"ok"}

\* auth.go:263-281: mint the refresh-token JWT, insert the session row
SignInCreateSession(p) ==
    /\ call[p].pc = "s_session"
    /\ uuids + 2 <= MaxUuids
    /\ uuids' = uuids + 2
    /\ \E out \in SessionOutcomes :
        /\ faults' = Count(out = "ok")
        /\ LET ok == out = "ok"
               jti == uuids + 1
               sid == uuids + 2
               str == GenerateRefreshTokenJWT(String(call[p].user), DefaultAudience,
                                              String(jti), now)
               row == SessionRow(sid, call[p].user, GetHash(str), now)
           IN IF ok /\ CreateSessionValid(row, now)
              THEN /\ sessions' = sessions \cup {row}
                   /\ call' = [call EXCEPT ![p] =
                        [call[p] EXCEPT !.pc = "s_refresh", !.jti = jti,
                             !.sessionId = sid, !.refreshStr = {str},
                             !.tokenExpiry = row.expiresAt, !.nSess = 1]]
              ELSE /\ UNCHANGED sessions
                   /\ call' = [call EXCEPT ![p] =
                        [Finish(p, SignInStepError(IF ok THEN "expires_at must be set and in the future"
                                                   ELSE out))
                            EXCEPT !.faulted = ~ok]]
    /\ UNCHANGED <<now, users, passwords, tokens, refreshTokens, mails,
                   minted, calls, hist>>

\* a slip of the row: the refresh token is stored under the session's id
RefreshTokenRow_SessionAsId(id, userID, sessionID, tokenHash, t) ==
    [id |-> sessionID, user |-> userID, sessionId |-> sessionID,
     tokenHash |-> Bytes(tokenHash), expiresAt |-> t + RefreshTokenExpiry]

\* the RefreshToken of auth.go:293-299
RefreshTokenRow(id, userID, sessionID, tokenHash, t) ==
    [id |-> id, user |-> userID, sessionId |-> sessionID,
     tokenHash |-> Bytes(tokenHash), expiresAt |-> t + RefreshTokenExpiry]

\* AuthService.CreateRefreshToken (auth.go:209-224): the checks before the insert
CreateRefreshTokenValid(row, t) == row.user # NoUser /\ ~(row.expiresAt < t)

\* a compensation the code does not have: the session row is removed again
SessionsAfterFailure_RolledBack(sid) == {r \in sessions : r.id # sid}

\* auth.go:289-302: when signing or the refresh-token insert fails the call
\* just returns the error; the session row is left as it is
SessionsAfterFailure(sid) == sessions

\* the ways the last step of a sign-in ends
SignInOutcomes == IF faults < MaxFaults THEN {"ok", "sign_failed", "insert_failed"}
                  ELSE {"ok"}

\* auth.go:283-314: sign the access token, insert the refresh-token row,
\* return the bundle
SignInCreateRefreshToken(p) ==
    /\ call[p].pc = "s_refresh"
    /\ \E out \in SignInOutcomes :
        /\ faults' = Count(out = "ok")
        /\ LET c == call[p]
               str == CHOOSE r \in c.refreshStr : TRUE
               access == Sign(AccessTokenPayload(c.user, EmailOf(c.user), c.sessionId),
                              String(c.user), now)
               row == RefreshTokenRow(c.jti, c.user, c.sessionId, GetHash(str), now)
           IN IF out = "ok" /\ CreateRefreshTokenValid(row, now)
              THEN /\ refreshTokens' = refreshTokens \cup {row}
                   /\ UNCHANGED sessions
                   /\ call' = [call EXCEPT ![p] =
                        [Finish(p, NoErr) EXCEPT !.accessStr = {access}, !.nRef = 1]]
              ELSE /\ UNCHANGED refreshTokens
                   /\ sessions' = SessionsAfterFailure(c.sessionId)
                   /\ call' = [call EXCEPT ![p] =
                        [Finish(p, SignInStepError(IF out = "ok" THEN "expires_at must be set and in the future"
                                                   ELSE out))
                            EXCEPT !.faulted = (out # "ok")]]
    /\ UNCHANGED <<now, users, passwords, tokens, mails, minted, uuids, calls, hist>>

\* the sign-in input: the emails of the model, an empty one, three passwords
SignInEmails == Emails \cup {""}

Next ==
    \/ Tick
    \/ \E p \in Procs : Return(p)
    \/ \E p \in Procs, e \in Emails : InitiateEmailVerification(p, e)
    \/ \E p \in Procs : InitiateFindAll(p)
    \/ \E p \in Procs : InitiateUpdateLastSent(p)
    \/ \E p \in Procs : InitiateDelete(p)
    \/ \E p \in Procs : InitiateCreate(p)
    \/ \E p \in Procs : InitiateSendMail(p)
    \/ \E p \in Procs, raw \in RawSecrets : ValidateEmailVerification(p, raw)
    \/ \E p \in Procs : ValidateDelete(p)
    \/ \E p \in Procs : ValidateMark(p)

Spec == Init /\ [][Next]_vars

AllIdle == \A q \in Procs : call[q].pc = "idle"

\* the same calls, one at a time: a call starts only when no other call runs
NextSeq ==
    \/ Tick
    \/ \E p \in Procs : Return(p)
    \/ \E p \in Procs, e \in Emails : AllIdle /\ InitiateEmailVerification(p, e)
    \/ \E p \in Procs : InitiateFindAll(p)
    \/ \E p \in Procs : InitiateUpdateLastSent(p)
    \/ \E p \in Procs : InitiateDelete(p)
    \/ \E p \in Procs : InitiateCreate(p)
    \/ \E p \in Procs : InitiateSendMail(p)
    \/ \E p \in Procs, raw \in RawSecrets : AllIdle /\ ValidateEmailVerification(p, raw)
    \/ \E p \in Procs : ValidateDelete(p)
    \/ \E p \in Procs : ValidateMark(p)

SpecSeq == Init /\ [][NextSeq]_vars

\* the stored users a sign-in can meet: verified or not, with or without a
\* password row (the states the verification flow and SetUserPassword leave)
InitSignIn ==
    /\ now = 0
    /\ users \in [Users -> {[verifiedAt |-> NoTime], [verifiedAt |-> 0]}]
    /\ passwords \in [Users -> {NoPassword, HashPassword("pw-right")}]
    /\ tokens = {}
    /\ sessions = {}
    /\ refreshTokens = {}
    /\ mails = {}
    /\ call = [p \in Procs |-> Idle]
    /\ minted = 0
    /\ uuids = 0
    /\ calls = 0
    /\ faults = 0
    /\ succeeded = {}
    /\ issued = {}
    /\ superseded = {}
    /\ firstTried = {}

NextSignIn ==
    \/ Tick
    \/ \E p \in Procs : Return(p)
    \/ \E p \in Procs, e \in SignInEmails, pw \in Passwords : SignInWithEmail(p, e, pw)
    \/ \E p \in Procs : SignInValidatePassword(p)
    \/ \E p \in Procs : SignInCreateSession(p)
    \/ \E p \in Procs : SignInCreateRefreshToken(p)

SpecSignIn == InitSignIn /\ [][NextSignIn]_vars

(************************ POST /auth/signin/email **************************)
\* the passwords a client may send: the service's inputs and a short one
RoutePasswords == Passwords \cup {"short"}

\* validate:"required,email" on SignInWithEmailRequest.Email: non-empty and
\* of the form of an address (every non-empty email of the model is)
ValidEmailField(email) == email # "" /\ email \in Emails

\* a slip of the tag: only the upper limit of the length is checked
ValidPasswordField_NoMin(password) == Len(password) <= 24

\* validate:"min=8,max=24" on SignInWithEmailRequest.Password
ValidPasswordField(password) == Len(password) >= 8 /\ Len(password) <= 24

\* the 400 response ValidateRequestJSON writes itself when validate.Struct
\* fails (validate_request.go:41-51); the next handler is not called
ValidationResponse == FiberError(StatusBadRequest, "validation error")

\* the route of handler/auth.go:45: ValidateRequestJSON, then the handler
\* that calls AuthService.SignInWithEmail
PostSignInEmail(p, email, password) ==
    IF ValidEmailField(email) /\ ValidPasswordField(password)
    THEN SignInWithEmail(p, email, password)
    ELSE /\ call[p].pc = "idle"
         /\ calls < MaxCalls
         /\ calls' = calls + 1
         /\ call' = [call EXCEPT ![p] =
                [Idle EXCEPT !.op = "rejected", !.pc = "done", !.email = email,
                             !.password = password, !.startedAt = now,
                             !.err = ValidationResponse]]
         /\ UNCHANGED <<now, db, mails, minted, uuids, faults, hist>>

NextRoute ==
    \/ Tick
    \/ \E p \in Procs : Return(p)
    \/ \E p \in Procs, e \in SignInEmails, pw \in RoutePasswords : PostSignInEmail(p, e, pw)
    \/ \E p \in Procs : SignInValidatePassword(p)
    \/ \E p \in Procs : SignInCreateSession(p)
    \/ \E p \in Procs : SignInCreateRefreshToken(p)

(**************** the codec alone: Sign, then ParseAndValidate **************)
JWTKeys == {"", "k1", "k2"}
PayloadKeys == {"user_id", "sub", "exp", "typ"}
\* a string, the epoch, and a time after every instant of a run
JSONValues == {JSONString("a"), JSONNumber(0), JSONNumber(2 * MaxTime)}
Payloads == UNION {[ks -> JSONValues] : ks \in SUBSET PayloadKeys}
Subjects == {<<>>} \cup {String(u) : u \in Users}

\* a caller signs a payload with a generator configured with key
CodecSign(p, key, payload, subject) ==
    /\ AllIdle
    /\ calls < MaxCalls
    /\ calls' = calls + 1
    /\ LET r == SignWithKey(key, payload, subject, now)
           c == [Idle EXCEPT !.op = "sign", !.codecKey = key, !.payload = payload,
                             !.subject = subject, !.startedAt = now,
                             !.accessStr = r.str]
       IN call' = [call EXCEPT ![p] =
            IF r.ok THEN [c EXCEPT !.pc = "signed"]
            ELSE [c EXCEPT !.pc = "done", !.err = PlainError("secret key is required")]]
    /\ UNCHANGED <<now, db, mails, minted, uuids, faults, hist>>

\* a caller mints a refresh token with a generator configured with key
CodecRefresh(p, key, u) ==
    /\ AllIdle
    /\ calls < MaxCalls
    /\ uuids < MaxUuids
    /\ calls' = calls + 1
    /\ uuids' = uuids + 1
    /\ LET r == GenerateRefreshTokenJWTWithKey(key, String(u), DefaultAudience,
                                               String(uuids + 1), now)
           c == [Idle EXCEPT !.op = "refresh", !.codecKey = key, !.subject = String(u),
                             !.jti = uuids + 1, !.startedAt = now, !.refreshStr = r.str]
       IN call' = [call EXCEPT ![p] =
            IF r.ok THEN [c EXCEPT !.pc = "signed"]
            ELSE [c EXCEPT !.pc = "done", !.err = PlainError("secret key is required")]]
    /\ UNCHANGED <<now, db, mails, minted, faults, hist>>

\* the same generator parses and validates the token string
CodecParse(p) ==
    /\ call[p].pc = "signed"
    /\ \E a \in call[p].accessStr \cup call[p].refreshStr :
        LET r == ParseAndValidate(a, call[p].codecKey, now)
        IN call' = [call EXCEPT ![p] =
              [call[p] EXCEPT !.pc = "done", !.claims = r.claims,
                   !.err = IF r.ok THEN NoErr ELSE PlainError("parse/validate jwt")]]
    /\ UNCHANGED <<now, db, mails, minted, uuids, calls, faults, hist>>

NextCodec ==
    \/ Tick
    \/ \E p \in Procs : Return(p)
    \/ /\ AllIdle
       /\ \E p \in Procs, key \in JWTKeys, payload \in Payloads, subject \in Subjects :
            CodecSign(p, key, payload, subject)
    \/ \E p \in Procs, key \in JWTKeys, u \in Users : CodecRefresh(p, key, u)
    \/ \E p \in Procs : CodecParse(p)

SpecCodec == Init /\ [][NextCodec]_vars

(******************************* pagination ********************************)
\* Go's int is 64 bits wide.  A non-negative int is kept as three limbs of 21
\* bits, least significant first (3 * 21 = 63 value bits); a signed int is a
\* sign and a magnitude.
LimbBase == 2^21
Nat63(n) == <<n, 0, 0>>
MaxInt == <<LimbBase - 1, LimbBase - 1, LimbBase - 1>>
GoInt(neg, mag) == [neg |-> neg, mag |-> mag]

\* the value of a query parameter: kind "absent" (or empty), "text" (not a
\* number), or "number", a decimal number with the int it denotes
QueryValue(kind, neg, mag) == [kind |-> kind, int |-> GoInt(neg, mag)]

\* v, _ := strconv.Atoi(c.Query(key, default)): the default for an absent or
\* empty parameter, 0 for a string that is no number (the error is dropped)
Atoi(q, default) ==
    IF q.kind = "absent" THEN GoInt(FALSE, Nat63(default))
    ELSE IF q.kind = "text" THEN GoInt(FALSE, Nat63(0))
    ELSE q.int

\* x < 1 and x > n for an int x and a small n
LessThanOne(x) == x.neg \/ x.mag = Nat63(0)
GreaterThan(x, n) == ~x.neg /\ (x.mag[3] > 0 \/ x.mag[2] > 0 \/ x.mag[1] > n)

\* mag - 1 for mag >= 1
MinusOne(mag) ==
    IF mag[1] > 0 THEN <<mag[1] - 1, mag[2], mag[3]>>
    ELSE IF mag[2] > 0 THEN <<LimbBase - 1, mag[2] - 1, mag[3]>>
    ELSE <<LimbBase - 1, LimbBase - 1, mag[3] - 1>>

\* the product of a non-negative number and a small k, as an integer: the 63
\* low bits and what lies above them
Times(mag, k) ==
    LET p1 == mag[1] * k
        p2 == mag[2] * k + p1 \div LimbBase
        p3 == mag[3] * k + p2 \div LimbBase
    IN [low |-> <<p1 % LimbBase, p2 % LimbBase, p3 % LimbBase>>,
        high |-> p3 \div LimbBase]

\* the same product as Go's int holds it: bit 63 is the sign bit, the bits above
\* are lost
TimesInt(mag, k) == GoInt(Times(mag, k).high % 2 = 1, Times(mag, k).low)

\* pagination.go:30-33
PageOf(q) ==
    LET page == Atoi(q.page, 1)
    IN IF LessThanOne(page) THEN Nat63(1) ELSE page.mag

\* pagination.go:35-41: the result is between 1 and 100
PerPageOf(q) ==
    LET perPage == Atoi(q.per_page, 10)
    IN IF GreaterThan(perPage, 100) THEN 100
       ELSE IF LessThanOne(perPage) THEN 10
       ELSE perPage.mag[1]

\* Paginate (pagination.go:29-51)
PaginateResult(q) ==
    [Page |-> PageOf(q), PerPage |-> PerPageOf(q),
     Offset |-> TimesInt(MinusOne(PageOf(q)), PerPageOf(q)),
     Limit |-> PerPageOf(q)]

\* GetPage (pagination.go:53-60) and GetPageSize (pagination.go:62-72)
GetPage(q) ==
    LET page == Atoi(q.page, 1)
    IN IF page.neg \/ page.mag = Nat63(0) THEN Nat63(1) ELSE page.mag
GetPageSize(q) ==
    LET perPage == Atoi(q.per_page, 10)
    IN IF GreaterThan(perPage, 100) THEN 100
       ELSE IF perPage.neg \/ perPage.mag = Nat63(0) THEN 10
       ELSE perPage.mag[1]

\* the values tried for either parameter
QueryValues ==
    {QueryValue("absent", FALSE, Nat63(0)), QueryValue("text", FALSE, Nat63(0)),
     QueryValue("number", TRUE, Nat63(5)), QueryValue("number", FALSE, <<0, 0, 1>>),
     QueryValue("number", FALSE, MaxInt)}
    \cup {QueryValue("number", FALSE, Nat63(n)) : n \in {0, 1, 2, 20, 100, 101, 150}}
Queries == [page : QueryValues, per_page : QueryValues]

\* a handler calls Paginate, GetPage and GetPageSize on the request's query
Paginate(p, q) ==
    /\ call[p].pc = "idle"
    /\ calls < MaxCalls
    /\ calls' = calls + 1
    /\ call' = [call EXCEPT ![p] =
            [Idle EXCEPT !.op = "paginate", !.pc = "paged", !.query = q,
                         !.pagination = PaginateResult(q)]]
    /\ UNCHANGED <<now, db, mails, minted, uuids, faults, hist>>

GetPageAndSize(p) ==
    /\ call[p].pc = "paged"
    /\ call' = [call EXCEPT ![p] =
            [call[p] EXCEPT !.pc = "done",
                 !.locals = [page |-> GetPage(call[p].query),
                             per_page |-> Nat63(GetPageSize(call[p].query))]]]
    /\ UNCHANGED <<now, db, mails, minted, uuids, calls, faults, hist>>

NextPaginate ==
    \/ \E p \in Procs : Return(p)
    \/ /\ AllIdle
       /\ \E p \in Procs, q \in Queries : Paginate(p, q)
    \/ \E p \in Procs : GetPageAndSize(p)

SpecPaginate == Init /\ [][NextPaginate]_vars

(***************************** SetUserPassword *****************************)
\* a well-formed user id that no user row carries
UnknownUser == "u9"

\* UserService.IsUserExistsByID: a row of users has that id
IsUserExistsByID(userID) == userID \in Users

\* a slip of the entry checks: the existence test is left out
SetUserPasswordRejection_NoExistenceTest(userID, password) ==
    IF Len(password) = 0
    THEN FiberError(StatusBadRequest, "password can't be empty")
    ELSE NoErr

\* auth.go:318-324: the error the entry checks return, nil when the call goes on
SetUserPasswordRejection(userID, password) ==
    IF Len(password) = 0
    THEN FiberError(StatusBadRequest, "password can't be empty")
    ELSE IF ~IsUserExistsByID(userID)
    THEN FiberError(StatusNotFound, "user with id cannot be fount")
    ELSE NoErr

\* AuthRepository.CreateUserPassword: the one row of user_passwords that
\* belongs to userID takes the hash
CreateUserPassword(userID, hash) ==
    [u \in Users |-> IF u = userID THEN hash ELSE passwords[u]]

\* the results of the insert: stored, refused because the user already has a
\* row, or failed
CreateOutcomes(userID) ==
    {"ok"} \cup (IF userID \in Users /\ passwords[userID] # NoPassword
                 THEN {"conflict"} ELSE {})
           \cup (IF faults < MaxFaults THEN {"failed"} ELSE {})

\* auth.go:317-325: the entry checks of SetUserPassword
SetUserPassword(p, userID, password) ==
    /\ call[p].pc = "idle"
    /\ calls < MaxCalls
    /\ calls' = calls + 1
    /\ LET e == SetUserPasswordRejection(userID, password)
           c == [Idle EXCEPT !.op = "setpassword", !.user = userID,
                             !.password = password, !.startedAt = now]
       IN call' = [call EXCEPT ![p] =
            IF e # NoErr THEN [c EXCEPT !.pc = "done", !.err = e]
            ELSE [c EXCEPT !.pc = "sp_create"]]
    /\ UNCHANGED <<now, db, mails, minted, uuids, faults, hist>>

\* auth.go:327-333: hash the password and persist the row
SetUserPasswordCreate(p) ==
    /\ call[p].pc = "sp_create"
    /\ \E out \in CreateOutcomes(call[p].user) :
        /\ faults' = IF out = "failed" THEN faults + 1 ELSE faults
        /\ passwords' = IF out = "ok"
                        THEN CreateUserPassword(call[p].user, HashPassword(call[p].password))
                        ELSE passwords
        /\ call' = [call EXCEPT ![p] =
              IF out = "ok" THEN Finish(p, NoErr)
              ELSE [Finish(p, PlainError(out)) EXCEPT !.faulted = (out = "failed")]]
    /\ UNCHANGED <<now, users, tokens, sessions, refreshTokens, mails, minted,
                   uuids, calls, hist>>

NextPassword ==
    \/ Tick
    \/ \E p \in Procs : Return(p)
    \/ \E p \in Procs, userID \in Users \cup {UnknownUser}, password \in Passwords :
            SetUserPassword(p, userID, password)
    \/ \E p \in Procs : SetUserPasswordCreate(p)

SpecPassword == Init /\ [][NextPassword]_vars

(************************* the bearer middleware ***************************)
\* a string that is not a compact JWS
Malformed == [claims |-> EmptyToken, sig |-> <<"not-a-jws">>]
IsCompactJWS(tokenString) == tokenString.sig[1] = "HS256"

\* the text of the error jwt.Parse returns (jwt.go:104-111), wrapped by
\* ParseAndValidate: parsing comes first, then the MAC, then exp and iat
ParseFailure(tokenString, key, t) ==
    LET c == tokenString.claims
    IN IF ~IsCompactJWS(tokenString)
            THEN "parse/validate jwt: failed to parse token"
       ELSE IF tokenString.sig # Mac(key, c)
            THEN "parse/validate jwt: failed to verify jws signature"
       ELSE IF "exp" \in DOMAIN c /\ ~(t < c["exp"])
            THEN "parse/validate jwt: exp not satisfied"
       ELSE "parse/validate jwt: iat not satisfied"

\* fmt.Sprintf("invalid token :%v", err) of middlewares/jwt.go:36
InvalidTokenMessage(failure) ==
    IF failure = "parse/validate jwt: failed to parse token"
        THEN "invalid token :parse/validate jwt: failed to parse token"
    ELSE IF failure = "parse/validate jwt: failed to verify jws signature"
        THEN "invalid token :parse/validate jwt: failed to verify jws signature"
    ELSE IF failure = "parse/validate jwt: exp not satisfied"
        THEN "invalid token :parse/validate jwt: exp not satisfied"
    ELSE "invalid token :parse/validate jwt: iat not satisfied"

\* an Authorization header: its part before the first space and the rest;
\* scheme "" with no token is the absent header
NoHeader == [scheme |-> "", token |-> Malformed]

\* a slip of the header test: every scheme is taken for Bearer
IsBearer_AnyScheme(scheme) == TRUE

\* strings.EqualFold(parts[0], "Bearer") of middlewares/jwt.go:23
IsBearer(scheme) == scheme \in {"Bearer", "bearer", "BEARER"}

\* middlewares/jwt.go:39-43: the claim named "type" is a string other than
\* "access"
NotAnAccessToken(claims) ==
    /\ "type" \in DOMAIN claims
    /\ claims["type"][1] = "str"
    /\ claims["type"] # JSONString("access")

\* middlewares/jwt.go:48-59: the locals set from the claims
Locals(claims) ==
    LET from == [k \in {"user_id", "session_id", "audience"} |->
                    IF k = "user_id" THEN "sub"
                    ELSE IF k = "session_id" THEN "sid" ELSE "aud"]
        set == {k \in DOMAIN from : from[k] \in DOMAIN claims}
    IN [k \in set |-> claims[from[k]]]

\* JWTMiddleware on header h at time t (middlewares/jwt.go:15-68): next is
\* TRUE iff c.Next() is called
JWTMiddleware(h, t) ==
    LET r == ParseAndValidate(h.token, SecretKey, t)
        stop(msg) == [next |-> FALSE, err |-> FiberError(StatusUnauthorized, msg),
                      claims |-> EmptyToken, locals |-> EmptyToken]
    IN IF h = NoHeader THEN stop("missing authorization header")
       ELSE IF ~IsBearer(h.scheme) THEN stop("invalid authorization header format")
       ELSE IF ~r.ok THEN stop(InvalidTokenMessage(ParseFailure(h.token, SecretKey, t)))
       ELSE IF NotAnAccessToken(r.claims) THEN stop("token is not an access token")
       ELSE [next |-> TRUE, err |-> NoErr, claims |-> r.claims, locals |-> Locals(r.claims)]

\* the access token sign-in mints for user u and session sid at time t0
AccessTokenOf(u, sid, t0) ==
    Sign(AccessTokenPayload(u, EmailOf(u), sid), String(u), t0)

\* the refresh token sign-in mints for user u at time t0
RefreshTokenOf(u, jti, t0) ==
    GenerateRefreshTokenJWT(String(u), DefaultAudience, String(jti), t0)

\* the token strings a client may present: tokens minted by this server when
\* the run began, a refresh token minted RefreshTokenExpiry earlier, a token
\* signed with another key, a token carrying a "type" claim, and garbage
PresentedTokens ==
    {AccessTokenOf(u, 1, 0) : u \in Users}
    \cup {RefreshTokenOf(u, 2, 0) : u \in Users}
    \cup {RefreshTokenOf("u1", 2, 0 - RefreshTokenExpiry)}
    \cup {Signed(SignClaims(AccessTokenPayload("u1", EmailOf("u1"), 1), String("u1"), 0), "k2")}
    \cup {Sign([k \in {"type"} |-> JSONString("refresh")], String("u1"), 0)}
    \cup {Malformed}

Headers ==
    {NoHeader} \cup
    {[scheme |-> sc, token |-> tok] : sc \in {"Bearer", "bearer", "Basic"},
                                      tok \in PresentedTokens}

\* a request to a route of the private group (handler/auth.go:47-49) with
\* Authorization header h
BearerRequest(p, h) ==
    /\ call[p].pc = "idle"
    /\ calls < MaxCalls
    /\ calls' = calls + 1
    /\ LET m == JWTMiddleware(h, now)
       IN call' = [call EXCEPT ![p] =
            [Idle EXCEPT !.op = "bearer", !.pc = "done", !.header = h,
                         !.startedAt = now, !.next = m.next, !.err = m.err,
                         !.claims = m.claims, !.locals = m.locals]]
    /\ UNCHANGED <<now, db, mails, minted, uuids, faults, hist>>

NextBearer ==
    \/ Tick
    \/ \E p \in Procs : Return(p)
    \/ \E p \in Procs, h \in Headers : BearerRequest(p, h)

SpecBearer == Init /\ [][NextBearer]_vars

\* the stored users the route is exercised on: u1 in any of its states, u2
\* registered only (unverified, no password row)
InitRoute ==
    /\ InitSignIn
    /\ users["u2"].verifiedAt = NoTime
    /\ passwords["u2"] = NoPassword

SpecRoute == InitRoute /\ [][NextRoute]_vars

\* one_time_tokens.user_id is nullable (OneTimeToken.UserID is a *uuid.UUID):
\* a stored token without an owning user, its secret known to a caller
OwnerlessSecret == 9
OwnerlessToken ==
    [id |-> OwnerlessSecret, user |-> NoUser,
     subject |-> OneTimeTokenSubjectEmailVerification,
     hash |-> Sha256Hex(OwnerlessSecret),
     expiresAt |-> OneTimeTokenTTL, lastSentAt |-> 0]

\* the instants at which the clock is read around the expiry of a token
\* issued at time 0: 14m59s, 15m and 15m1s after issuance
Instants ==
    {t \in {0, OneTimeTokenTTL - 1, OneTimeTokenTTL, OneTimeTokenTTL + 1} : t <= MaxTime}

\* time passes, to one of the later instants
Advance ==
    /\ \E t \in Instants : t > now /\ now' = t
    /\ UNCHANGED <<db, mails, call, minted, uuids, calls, faults, hist>>

\* the verification flow over a token table that may hold an ownerless row
InitBoundary ==
    /\ now = 0
    /\ users = [u \in Users |-> [verifiedAt |-> NoTime]]
    /\ passwords = [u \in Users |-> NoPassword]
    /\ tokens \in {{}, {OwnerlessToken}}
    /\ sessions = {}
    /\ refreshTokens = {}
    /\ mails = {}
    /\ call = [p \in Procs |-> Idle]
    /\ minted = 0
    /\ uuids = 0
    /\ calls = 0
    /\ faults = 0
    /\ succeeded = {}
    /\ issued = {}
    /\ superseded = {}
    /\ firstTried = {}

\* the calls of the verification flow, one at a time, on the finer clock
NextBoundary ==
    \/ Advance
    \/ \E p \in Procs : Return(p)
    \/ \E p \in Procs, e \in Emails : AllIdle /\ InitiateEmailVerification(p, e)
    \/ \E p \in Procs : InitiateFindAll(p)
    \/ \E p \in Procs : InitiateUpdateLastSent(p)
    \/ \E p \in Procs : InitiateDelete(p)
    \/ \E p \in Procs : InitiateCreate(p)
    \/ \E p \in Procs : InitiateSendMail(p)
    \/ \E p \in Procs, raw \in RawSecrets \cup {OwnerlessSecret} :
            AllIdle /\ ValidateEmailVerification(p, raw)
    \/ \E p \in Procs : ValidateDelete(p)
    \/ \E p \in Procs : ValidateMark(p)

SpecBoundary == InitBoundary /\ [][NextBoundary]_vars

(******************************* claims ************************************)
Done(p, op) == call[p].op = op /\ call[p].pc = "done"

\* the stored tokens of (u, email_verification) that
\* ValidateEmailVerification accepts at the current time
Acceptable(u) == {t \in tokens : ForUserSubject(t, u) /\ ~Expired(t, now)}

\* C1: once two InitiateEmailVerification calls for the same user have both
\* finished, at most one stored token of that user is accepted by
\* ValidateEmailVerification.
C1_AtMostOneActiveToken ==
    \A p, q \in Procs :
        (p # q /\ Done(p, "initiate") /\ Done(q, "initiate")
            /\ call[p].user # NoUser /\ call[p].user = call[q].user)
        => Cardinality(Acceptable(call[p].user)) <= 1

\* C2: with non-overlapping calls, when InitiateEmailVerification has returned
\* nil for user u, the only stored token of (u, email_verification) is the one
\* the call minted: every prior token of the pair is deleted, so at most one
\* unexpired token of the pair is stored.
C2_OnlyNewTokenRemains ==
    \A p \in Procs :
        (Done(p, "initiate") /\ call[p].err = NoErr)
        => /\ {t.id : t \in {r \in tokens : ForUserSubject(r, call[p].user)}}
                = {call[p].newTok}
           /\ Cardinality(Acceptable(call[p].user)) <= 1

\* a successful re-issuance: the user had an earlier token, now retired
C2_Witness ==
    \E p \in Procs :
        /\ Done(p, "initiate") /\ call[p].err = NoErr
        /\ \E i \in issued : i.user = call[p].user /\ i.id # call[p].newTok
                /\ i.expiresAt <= call[p].t0

\* C3: a ValidateEmailVerification call made after an earlier call returned
\* nil for the same raw secret fails with 401 Unauthorized (the later call
\* itself meets no storage error).
C3_SingleUse ==
    \A p \in Procs :
        (Done(p, "validate") /\ call[p].afterSuccess /\ ~call[p].faulted)
        => Error(call[p].err).status = StatusUnauthorized

\* C4: the first ValidateEmailVerification of a raw secret that a successful
\* InitiateEmailVerification mailed, made before expiry and with no later
\* InitiateEmailVerification for the user, returns nil and leaves the user's
\* email verified (no storage error in the call); every stored row holds the
\* SHA-256 hex of its raw secret, the value the lookup computes.
C4_FirstValidateSucceeds ==
    /\ \A p \in Procs :
        (Done(p, "validate") /\ call[p].first /\ call[p].fresh /\ ~call[p].faulted)
        => /\ call[p].err = NoErr
           /\ \E i \in issued : i.raw = call[p].secret
                                /\ users[i.user].verifiedAt # NoTime
    /\ \A t \in tokens : \A i \in issued :
        t.id = i.id => t.hash = Sha256Hex(i.raw)

\* the first validation of a mailed, unexpired secret has returned
C4_Witness ==
    \E p \in Procs :
        /\ Done(p, "validate") /\ call[p].first /\ call[p].fresh /\ ~call[p].faulted
        /\ call[p].err = NoErr
        /\ users[call[p].user].verifiedAt # NoTime

\* C10: a ValidateEmailVerification call that returns an error has not
\* deleted the one-time token (the delete comes after the email is marked
\* verified).
C10_FailedCallKeepsToken ==
    \A p \in Procs :
        (Done(p, "validate") /\ call[p].err # NoErr) => ~call[p].deleted

\* the three causes of a refused sign-in, read off the input and the stored rows
UnknownEmail_Case(p) == GetUserByEmail(call[p].email) = NoUser
WrongPassword_Case(p) ==
    /\ GetUserByEmail(call[p].email) # NoUser
    /\ ~ValidatePasswordHash(call[p].password, passwords[GetUserByEmail(call[p].email)])
Unverified_Case(p) ==
    /\ GetUserByEmail(call[p].email) # NoUser
    /\ users[GetUserByEmail(call[p].email)].verifiedAt = NoTime

\* C5: a sign-in for an unknown email, with a wrong password or for an
\* unverified email ends with the one response 401 "invalid credentials" and
\* has created no session row and no refresh-token row, so the three causes
\* cannot be told apart (the lookup of the user row meets no storage error).
C5_UniformInvalidCredentials ==
    \A p \in Procs :
        (Done(p, "signin") /\ call[p].email # "" /\ call[p].password # ""
            /\ ~(call[p].faulted /\ call[p].user = NoUser)
            /\ (UnknownEmail_Case(p) \/ WrongPassword_Case(p) \/ Unverified_Case(p)))
        => /\ Error(call[p].err) = [status |-> StatusUnauthorized,
                                    msg |-> "invalid credentials"]
           /\ call[p].nSess = 0 /\ call[p].nRef = 0

\* two refused sign-ins side by side: a wrong password for a verified user
\* and the right password for an unverified user
C5_Witness ==
    \E p, q \in Procs :
        /\ Done(p, "signin") /\ Done(q, "signin")
        /\ WrongPassword_Case(p) /\ ~Unverified_Case(p) /\ call[p].password # ""
        /\ Unverified_Case(q) /\ ~WrongPassword_Case(q)
        /\ call[p].err = call[q].err

\* the credentials of the call are valid: the user exists, the stored hash
\* matches the password and the email is verified
ValidCredentials(p) ==
    /\ GetUserByEmail(call[p].email) # NoUser
    /\ ValidatePasswordHash(call[p].password, passwords[GetUserByEmail(call[p].email)])
    /\ users[GetUserByEmail(call[p].email)].verifiedAt # NoTime

\* C6: a sign-in with valid credentials that meets no storage or signing
\* error returns a bundle whose TokenExpiry is the session's expires_at and
\* lies strictly after the time of the call, and whose access token
\* ParseAndValidate accepts, with sub and user_id the user's id and sid the id
\* of the session the call created.
C6_SignInSucceeds ==
    \A p \in Procs :
        (Done(p, "signin") /\ ValidCredentials(p) /\ ~call[p].faulted)
        => /\ call[p].err = NoErr
           /\ call[p].startedAt < call[p].tokenExpiry
           /\ \E s \in sessions : s.id = call[p].sessionId
                                  /\ s.expiresAt = call[p].tokenExpiry
           /\ \A a \in call[p].accessStr :
                LET r == ParseAndValidate(a, SecretKey, now)
                    u == GetUserByEmail(call[p].email)
                IN /\ r.ok
                   /\ {"sub", "user_id", "sid"} \subseteq DOMAIN r.claims
                   /\ r.claims["sub"] = String(u)
                   /\ r.claims["user_id"] = String(u)
                   /\ r.claims["sid"] = String(call[p].sessionId)
           /\ call[p].accessStr # {}

\* a sign-in with valid credentials has returned its bundle
C6_Witness ==
    \E p \in Procs :
        /\ Done(p, "signin") /\ ValidCredentials(p) /\ ~call[p].faulted
        /\ call[p].err = NoErr /\ call[p].accessStr # {}

\* a sign-in of user u is running with a password that matches the stored
\* hash, and u's email is verified
WrittenForValidUser(u) ==
    /\ users[u].verifiedAt # NoTime
    /\ passwords[u] # NoPassword
    /\ \E p \in Procs : /\ call[p].op = "signin" /\ call[p].user = u
                        /\ ValidatePasswordHash(call[p].password, passwords[u])

C8_OneSessionOneRefreshToken ==
    /\ \A p \in Procs :
        (Done(p, "signin") /\ call[p].err = NoErr)
        => LET ss == {s \in sessions : s.id = call[p].sessionId}
               rs == {r \in refreshTokens : r.sessionId = call[p].sessionId}
           IN /\ call[p].nSess = 1 /\ call[p].nRef = 1
              /\ Cardinality(ss) = 1 /\ Cardinality(rs) = 1
              /\ \A str \in call[p].refreshStr :
                    /\ \A r \in rs : /\ String(r.id) = str.claims["jti"]
                                     /\ r.tokenHash = Bytes(GetHash(str))
                    /\ \A x \in ss : x.tokenHash = GetHash(str)
              /\ call[p].refreshStr # {}
    /\ \A r1, r2 \in refreshTokens : r1.sessionId = r2.sessionId => r1 = r2

\* two sign-ins have succeeded, each with its own pair of rows
C8_Witness ==
    /\ Cardinality(refreshTokens) = 2
    /\ \E p \in Procs : Done(p, "signin") /\ call[p].err = NoErr

\* C9: a sign-in that has persisted its session row and then fails to sign the
\* access token or to insert the refresh-token row returns an error, and the
\* session row stays stored with no refresh-token row referencing it.
C9_NoRollback ==
    \A p \in Procs :
        (Done(p, "signin") /\ call[p].nSess = 1 /\ call[p].nRef = 0)
        => /\ call[p].err # NoErr
           /\ \E s \in sessions : s.id = call[p].sessionId
           /\ ~\E r \in refreshTokens : r.sessionId = call[p].sessionId

\* the refresh-token insert has failed after the session insert
C9_Witness ==
    \E p \in Procs :
        /\ Done(p, "signin") /\ call[p].nSess = 1 /\ call[p].nRef = 0
        /\ call[p].err = PlainError("insert_failed")

\* the lookup of the call found a stored, unexpired token owned by a user
FoundUsableToken(p) == call[p].tok # {} /\ call[p].user # NoUser

\* C11: a ValidateEmailVerification call that found a stored, unexpired,
\* user-owned token and whose marking of the email meets no storage error
\* returns nil with the owner's email verified, whether its DeleteOneTimeToken
\* returned nil or an error.
C11_DeleteFailureIgnored ==
    \A p \in Procs :
        (Done(p, "validate") /\ FoundUsableToken(p) /\ ~call[p].faulted)
        => /\ call[p].err = NoErr
           /\ users[call[p].user].verifiedAt # NoTime

\* a call whose delete returned an error has returned nil
C11_Witness ==
    \E p \in Procs :
        /\ Done(p, "validate") /\ FoundUsableToken(p) /\ ~call[p].faulted
        /\ ~call[p].deleted /\ call[p].err = NoErr

\* p starts a ValidateEmailVerification in this step and its lookup meets no
\* storage error
ValidateStarts(p) ==
    call[p].pc = "idle" /\ call'[p].op = "validate" /\ ~call'[p].faulted

AtLastSecond(p) ==
    \E i \in issued : /\ i.raw = call[p].secret
                       /\ call[p].startedAt = i.t0 + OneTimeTokenTTL - 1
\* a token issued at t0 is validated one second after t0 + 15 minutes
AtFirstSecondAfter(p) ==
    \E i \in issued : /\ i.raw = call[p].secret
                       /\ call[p].startedAt = i.t0 + OneTimeTokenTTL + 1

\* C13: every token issued at time t0 has expires_at = t0 + 15 minutes; a
\* ValidateEmailVerification that finds it at t0 + 14m59s returns nil (no
\* storage error in the call), one that finds it at t0 + 15m1s fails with
\* 401 "one time token is expired".
C13_TTLBoundary ==
    /\ \A i \in issued : i.expiresAt = i.t0 + OneTimeTokenTTL
    /\ \A t \in tokens : \A i \in issued : t.id = i.id => t.expiresAt = i.expiresAt
    /\ \A p \in Procs :
        (Done(p, "validate") /\ ~call[p].faulted /\ call[p].tok # {})
        => /\ AtLastSecond(p) => call[p].err = NoErr
           /\ AtFirstSecondAfter(p)
                => call[p].err = FiberError(StatusUnauthorized, "one time token is expired")

\* a token has been accepted 14m59s after its issuance
C13_Witness ==
    \E p \in Procs : /\ Done(p, "validate") /\ ~call[p].faulted /\ call[p].tok # {}
                      /\ AtLastSecond(p) /\ call[p].err = NoErr

\* a token has been refused 15m1s after its issuance
C13_WitnessExpired ==
    \E p \in Procs : /\ Done(p, "validate") /\ ~call[p].faulted /\ call[p].tok # {}
                      /\ AtFirstSecondAfter(p) /\ call[p].err # NoErr

\* C14: both tests of validity agree with `t < expires_at` at every time t: a
\* ValidateEmailVerification that finds a user-owned token goes on iff
\* now < expires_at, and InitiateEmailVerification finds a still valid prior
\* token iff some stored token of the user has now < expires_at.
C14_ValidityTestsAgree ==
    [][\A p \in Procs :
        /\ (ValidateStarts(p) /\ \E t \in call'[p].tok : t.user # NoUser)
            => \A t \in call'[p].tok : (call'[p].pc = "v_delete" <=> now < t.expiresAt)
        /\ (call[p].pc = "i_find" /\ call'[p].pc \in {"i_update", "i_delete", "i_create"})
            => (call'[p].existing # {}
                    <=> \E t \in tokens : ForUserSubject(t, call[p].user)
                                          /\ now < t.expiresAt)]_vars

\* C15: a sign-in that has passed the credential checks and then fails in
\* minting the refresh token, inserting the session, signing the access token
\* or inserting the refresh token returns an error that is reported as 500
\* Internal and is not the InvalidCredentials error.
C15_LateFailuresAreInternal ==
    \A p \in Procs :
        (Done(p, "signin") /\ call[p].validated /\ call[p].err # NoErr)
        => /\ call[p].err # ErrInvalidCredentials
           /\ Error(call[p].err).status = StatusInternalServerError

\* the signing of the access token has failed after the session insert
C15_Witness ==
    \E p \in Procs :
        /\ Done(p, "signin") /\ call[p].validated /\ call[p].nSess = 1
        /\ call[p].err = PlainError("sign_failed")
        /\ Error(call[p].err).status = StatusInternalServerError

\* the fetch of the stored password hash of the call met a storage error
PasswordFetchFailed(p) ==
    Done(p, "signin") /\ call[p].faulted /\ call[p].user # NoUser /\ ~call[p].validated

\* C16: a sign-in whose fetch of the stored password hash meets a storage
\* error is reported as 500 Internal, not as 401 InvalidCredentials.
C16_PasswordFetchFailureIsInternal ==
    \A p \in Procs :
        PasswordFetchFailed(p)
        => /\ call[p].err # ErrInvalidCredentials
           /\ Error(call[p].err).status = StatusInternalServerError

\* C17: a request to POST /auth/signin/email whose password has fewer than 8
\* characters is answered 400 by the request validation in the step that
\* receives it: the sign-in service is not entered, no user is looked up, no
\* storage statement is issued and no stored row changes.
C17_ShortPasswordRejectedEarly ==
    [][\A p \in Procs :
        (call[p].pc = "idle" /\ call'[p].pc # "idle" /\ Len(call'[p].password) < 8)
        => /\ call'[p].pc = "done" /\ call'[p].op = "rejected"
           /\ Error(call'[p].err).status = StatusBadRequest
           /\ call'[p].user = NoUser
           /\ UNCHANGED <<db, faults>>]_vars

\* the request {a@x.io, "short"} has been answered 400
C17_Witness ==
    \E p \in Procs :
        /\ call[p].pc = "done" /\ call[p].op = "rejected"
        /\ call[p].password = "short" /\ call[p].email = EmailOf("u1")
        /\ Error(call[p].err).status = StatusBadRequest

\* p starts an InitiateEmailVerification whose user lookup returns without error
InitiateStarts(p) ==
    /\ call[p].pc = "idle"
    /\ call'[p].op = "initiate"
    /\ ~call'[p].faulted

\* C18: InitiateEmailVerification returns 404 when no user has the email and
\* 400 when the user's email is already verified; in both cases the call ends
\* there: no one-time token is read, updated, deleted or created, and no mail
\* is sent.
C18_RejectedBeforeAnyTokenWork ==
    [][\A p \in Procs :
        LET u == GetUserByEmail(call'[p].email)
            rejected == u = NoUser \/ users[u].verifiedAt # NoTime
        IN (InitiateStarts(p) /\ rejected) =>
              /\ call'[p].pc = "done"
              /\ call'[p].err.fiber
              /\ call'[p].err.code =
                    IF u = NoUser THEN StatusNotFound ELSE StatusBadRequest
              /\ Error(call'[p].err).status = call'[p].err.code
              /\ UNCHANGED <<db, mails, minted, issued, superseded>>]_vars

\* an InitiateEmailVerification for an already verified user has been refused
\* with 400
C18_Witness ==
    \E p \in Procs :
        /\ Done(p, "initiate")
        /\ call[p].user # NoUser
        /\ users[call[p].user].verifiedAt # NoTime
        /\ call[p].err = FiberError(StatusBadRequest, "email already verified")

\* an InitiateEmailVerification for an unknown email has been refused with 404
C18_WitnessNotFound ==
    \E p \in Procs :
        /\ Done(p, "initiate")
        /\ call[p].email = UnknownEmail
        /\ call[p].err = FiberError(StatusNotFound, "user not found")

\* C19: when the verification mail cannot be sent the call returns an error
\* (500 at the transport); the call succeeds only when a mail to the user,
\* carrying the raw secret of the token row this call stored, has been handed
\* to the mailer without error.
C19_MailFailurePropagates ==
    [][\A p \in Procs :
        (call[p].pc = "i_mail" /\ call'[p].pc = "done") =>
            LET sent == mails' \ mails
                mine == {i \in issued : i.id = call[p].newTok}
            IN /\ (sent = {}) => /\ call'[p].err # NoErr
                                 /\ Error(call'[p].err).status = StatusInternalServerError
               /\ (call'[p].err = NoErr) =>
                     /\ mine # {}
                     /\ sent = {[to |-> call[p].email, token |-> i.raw] : i \in mine}
                     /\ \A i \in mine : \A t \in tokens :
                            t.id = i.id => t.hash = GetHash(i.raw)]_vars

\* a token row has been stored, the mail hand-off failed, and the call ended
\* with that error
C19_Witness ==
    \E p \in Procs :
        /\ Done(p, "initiate")
        /\ call[p].newTok # 0
        /\ call[p].err = PlainError("smtp failed")
        /\ \A m \in mails : m.token # call[p].secret

\* the claim k of the parsed token holds the value v the payload gave it
Recovered(claims, k, v) ==
    /\ k \in DOMAIN claims
    /\ IF k \in NumericDateClaims
       THEN v[1] = "num" /\ claims[k] = v[2]
       ELSE claims[k] = v

\* C20: for every payload, keys named like registered claims included, and
\* every non-empty secret key, ParseAndValidate(Sign(payload, subject))
\* succeeds and returns claims in which every payload field has its original
\* value and sub is the given subject.
C20_RoundTrip ==
    \A p \in Procs :
        (Done(p, "sign") /\ call[p].codecKey # "") =>
            /\ call[p].err = NoErr
            /\ \A k \in DOMAIN call[p].payload :
                    Recovered(call[p].claims, k, call[p].payload[k])
            /\ call[p].subject # <<>> =>
                    /\ "sub" \in DOMAIN call[p].claims
                    /\ call[p].claims["sub"] = call[p].subject

\* the claims of the token strings p holds after minting
MintedClaims(p) == {a.claims : a \in call[p].accessStr \cup call[p].refreshStr}

\* iss, iat and exp are set, iss and iat as the generator set them at time t
CarriesRegistered(c, t) ==
    /\ {"iss", "iat", "exp", "typ"} \subseteq DOMAIN c
    /\ c["iss"] = Issuer
    /\ c["iat"] = t

\* C21: every token produced by Sign carries issuer, issued-at, expiry and
\* typ = "access", whatever the payload; every token produced by
\* GenerateRefreshTokenJWT carries issuer, issued-at, expiry and typ = "refresh".
C21_RegisteredClaimsAlwaysPresent ==
    \A p \in Procs : \A c \in MintedClaims(p) :
        /\ call[p].op = "sign" =>
                /\ CarriesRegistered(c, call[p].startedAt)
                /\ c["typ"] = <<"str", "access">>
        /\ call[p].op = "refresh" =>
                /\ CarriesRegistered(c, call[p].startedAt)
                /\ c["typ"] = <<"str", "refresh">>

\* p's request carried a Bearer token that verification refused, and why
Refused(p) ==
    /\ Done(p, "bearer")
    /\ call[p].header.scheme = "Bearer"
    /\ ~call[p].next
BadSignature(tok, key) == tok.sig[1] = "HS256" /\ tok.sig # <<"HS256", key, tok.claims>>
ExpiredJWT(tok, key, t) ==
    /\ tok.sig = <<"HS256", key, tok.claims>>
    /\ "exp" \in DOMAIN tok.claims
    /\ tok.claims["exp"] <= t
RefusalCause(p) ==
    LET tok == call[p].header.token
    IN IF tok = Malformed THEN "malformed"
       ELSE IF BadSignature(tok, SecretKey) THEN "signature"
       ELSE IF ExpiredJWT(tok, SecretKey, call[p].startedAt) THEN "expired"
       ELSE "other"

\* C22: a token with a bad signature, an expired token and a malformed token
\* get the same Unauthorized response from the bearer middleware: same status,
\* same message.
C22_OpaqueRejection ==
    \A p, q \in Procs :
        (/\ Refused(p) /\ Refused(q)
         /\ RefusalCause(p) \in {"malformed", "signature", "expired"}
         /\ RefusalCause(q) \in {"malformed", "signature", "expired"}) =>
            /\ Error(call[p].err).status = StatusUnauthorized
            /\ Error(call[p].err) = Error(call[q].err)

\* the token verifies under key and its exp / iat hold at time t
PassesValidation(tok, key, t) ==
    /\ tok.sig = <<"HS256", key, tok.claims>>
    /\ "exp" \in DOMAIN tok.claims => t < tok.claims["exp"]
    /\ "iat" \in DOMAIN tok.claims => tok.claims["iat"] <= t

\* the local named l holds the claim named k, and is unset when the token has
\* no such claim
LocalIsClaim(p, l, k) ==
    IF k \in DOMAIN call[p].header.token.claims
    THEN l \in DOMAIN call[p].locals
         /\ call[p].locals[l] = call[p].header.token.claims[k]
    ELSE l \notin DOMAIN call[p].locals

C26_OnlyAccessTokensPass ==
    \A p \in Procs :
        LET c == call[p].header.token.claims
        IN (/\ Done(p, "bearer")
            /\ IsBearer(call[p].header.scheme)
            /\ PassesValidation(call[p].header.token, SecretKey, call[p].startedAt)
            /\ "typ" \in DOMAIN c
            /\ c["typ"] # <<"str", "access">>) =>
                /\ ~call[p].next
                /\ call[p].err = FiberError(StatusUnauthorized, "token is not an access token")

\* p's SetUserPassword call returns nil in this step
SetUserPasswordSucceeds(p) ==
    /\ call[p].op = "setpassword" /\ call[p].pc # "done"
    /\ call'[p].pc = "done" /\ call'[p].err = NoErr

\* p starts a SetUserPassword with an empty password or an unknown user id
SetUserPasswordStartsBad(p) ==
    /\ call[p].pc = "idle" /\ call'[p].op = "setpassword"
    /\ (call'[p].password = "" \/ call'[p].user \notin Users)

ExpectedPage(page) == IF page.neg \/ page.mag = <<0, 0, 0>> THEN <<1, 0, 0>> ELSE page.mag
ExpectedPerPage(perPage) ==
    IF perPage.neg \/ perPage.mag = <<0, 0, 0>> THEN 10
    ELSE IF perPage.mag[2] > 0 \/ perPage.mag[3] > 0 \/ perPage.mag[1] > 100 THEN 100
    ELSE perPage.mag[1]

\* C25: for every value of page and per_page (absent, non-numeric, zero,
\* negative, positive) Paginate returns Page = max(1, page), 1 for absent or
\* non-numeric input; PerPage = 10 for absent, non-numeric or <= 0, 100 above
\* 100, per_page otherwise; Offset = (Page - 1) * PerPage; Limit = PerPage;
\* GetPage and GetPageSize return the same Page and PerPage.
C25_PaginateValues ==
    \A p \in Procs : call[p].op = "paginate" =>
        LET q == call[p].query
            r == call[p].pagination
            page == IF q.page.kind \in {"absent", "text"}
                    THEN [neg |-> FALSE, mag |-> <<1, 0, 0>>] ELSE q.page.int
            perPage == IF q.per_page.kind \in {"absent", "text"}
                       THEN [neg |-> FALSE, mag |-> <<10, 0, 0>>] ELSE q.per_page.int
            product == Times(MinusOne(r.Page), r.PerPage)
        IN /\ r.Page = ExpectedPage(page)
           /\ r.PerPage = ExpectedPerPage(perPage)
           /\ r.Limit = r.PerPage
           /\ ~r.Offset.neg /\ product.high = 0 /\ r.Offset.mag = product.low
           /\ call[p].pc = "done" =>
                /\ call[p].locals.page = r.Page
                /\ call[p].locals.per_page = <<r.PerPage, 0, 0>>

\* C27: an access token minted by Sign has exp = iat + AccessTokenExpiry, as
\* a refresh token has exp = iat + RefreshTokenExpiry, so that ParseAndValidate
\* accepts the access token before that instant and refuses it after.  Stated
\* for payloads that name neither exp nor iat themselves.
C27_AccessTokenExpires ==
    \A p \in Procs : \A c \in MintedClaims(p) :
        /\ (call[p].op = "sign" /\ DOMAIN call[p].payload \cap {"exp", "iat"} = {}) =>
                /\ "exp" \in DOMAIN c
                /\ c["exp"] = c["iat"] + AccessTokenExpiry
        /\ call[p].op = "refresh" =>
                /\ "exp" \in DOMAIN c
                /\ c["exp"] = c["iat"] + RefreshTokenExpiry


(*********************** the database at start-up *************************)
\* server.go:132-134, in seconds
baseDelay == 2
maxDelay == 30
defaultMaxRetries == 5

\* cfg.Database.MaxRetries (PG_MAX_RETRIES, an int): negative, -1, zero,
\* small, and as large as the attempts of a run
ConfiguredMaxRetries == {-2, -1, 0, 1, 3, MaxAttempts}

\* server.go:136-141
maxRetries(configured) ==
    IF configured = -1 THEN -1
    ELSE IF configured > 0 THEN configured
    ELSE defaultMaxRetries

\* a slip of the test: one attempt more than the limit
StopRetrying_OneMore(limit, attempt) == limit # -1 /\ attempt > limit

\* server.go:171: `maxRetries != -1 && attempt >= maxRetries`
StopRetrying(limit, attempt) == limit # -1 /\ attempt >= limit

\* server.go:176: min(baseDelay*time.Duration(attempt), maxDelay)
delay(attempt) ==
    IF baseDelay * attempt < maxDelay THEN baseDelay * attempt ELSE maxDelay

\* server.go:136-146: the limit is fixed, the first attempt is numbered 1
initializeDatabase(p, configured) ==
    /\ call[p].pc = "idle"
    /\ call' = [call EXCEPT ![p] =
         [Idle EXCEPT !.op = "initdb", !.pc = "db_attempt",
                      !.cfgMaxRetries = configured,
                      !.maxRetries = maxRetries(configured), !.attempt = 1]]
    /\ UNCHANGED <<now, db, mails, minted, uuids, calls, faults, hist>>

\* the ways one attempt ends: NewPostgres and Ping both succeed, NewPostgres
\* fails, or Ping fails (the pool is closed again); a run of the model lets
\* at most MaxAttempts attempts fail
AttemptOutcomes(c) ==
    {"ok"} \cup
    (IF c.attempt < MaxAttempts \/ StopRetrying(c.maxRetries, c.attempt)
     THEN {"connect failed", "ping failed"} ELSE {})

\* server.go:148-179: one pass of the loop up to the sleep
DatabaseAttempt(p) ==
    /\ call[p].pc = "db_attempt"
    /\ \E out \in AttemptOutcomes(call[p]) :
        LET c == call[p]
        IN call' = [call EXCEPT ![p] =
             IF out = "ok" THEN [Finish(p, NoErr) EXCEPT !.conn = TRUE]
             ELSE IF StopRetrying(c.maxRetries, c.attempt)
             THEN [Finish(p, PlainError("failed to establish database connection"))
                        EXCEPT !.failed = c.failed + 1]
             ELSE [c EXCEPT !.failed = c.failed + 1, !.pc = "db_sleep",
                            !.delays = Append(c.delays, delay(c.attempt))]]
    /\ UNCHANGED <<now, db, mails, minted, uuids, calls, faults, hist>>

\* server.go:179-180: time.Sleep(delay) returns, attempt++
DatabaseSleep(p) ==
    /\ call[p].pc = "db_sleep"
    /\ call' = [call EXCEPT ![p] =
         [call[p] EXCEPT !.attempt = call[p].attempt + 1, !.pc = "db_attempt"]]
    /\ UNCHANGED <<now, db, mails, minted, uuids, calls, faults, hist>>

NextDatabase ==
    \/ \E p \in Procs : Return(p)
    \/ /\ AllIdle
       /\ \E p \in Procs, configured \in ConfiguredMaxRetries :
            initializeDatabase(p, configured)
    \/ \E p \in Procs : DatabaseAttempt(p)
    \/ \E p \in Procs : DatabaseSleep(p)

\* NewPostgres returns, Ping runs under a 10 s timeout (server.go:153) and
\* time.Sleep returns: a started pass of the loop is completed
SpecDatabase ==
    /\ Init
    /\ [][NextDatabase]_vars
    /\ WF_vars(\E p \in Procs : DatabaseAttempt(p))
    /\ WF_vars(\E p \in Procs : DatabaseSleep(p))

(****************** onboarding through the HTTP API alone ******************)
\* validate:"required,min=8" on SetUserPasswordRequest.Password and
\* "required,eqfield=Password" on PasswordConfirmation (dto/auth.go:20-24);
\* every user id of the model is a well-formed uuid
ValidSetUserPasswordRequest(password, confirmation) ==
    Len(password) >= 8 /\ confirmation = password

\* the access tokens sign-ins have returned so far: one per refresh-token
\* row, minted in the same step (auth.go:283-299)
IssuedAccessTokens ==
    {AccessTokenOf(r.user, r.sessionId, r.expiresAt - RefreshTokenExpiry) :
        r \in refreshTokens}

\* the Authorization headers a client can send: none, garbage, a token it
\* signed itself with a key of its own, or a token a sign-in returned
ClientHeaders ==
    {NoHeader} \cup
    {[scheme |-> "Bearer", token |-> tok] :
        tok \in {Malformed,
                 Signed(SignClaims(AccessTokenPayload("u1", EmailOf("u1"), 1),
                                   String("u1"), 0), "k2")}
                \cup IssuedAccessTokens}

\* POST /auth/password (handler/auth.go:47-48): JWTMiddleware of the private
\* group, then ValidateRequestJSON, then the handler calling
\* AuthService.SetUserPassword
PostPassword(p, h, userID, password, confirmation) ==
    LET m == JWTMiddleware(h, now)
    IN IF m.next /\ ValidSetUserPasswordRequest(password, confirmation)
       THEN SetUserPassword(p, userID, password)
       ELSE /\ call[p].pc = "idle"
            /\ calls < MaxCalls
            /\ calls' = calls + 1
            /\ call' = [call EXCEPT ![p] =
                 [Idle EXCEPT !.op = "postpassword", !.pc = "done", !.header = h,
                              !.user = userID, !.password = password,
                              !.startedAt = now, !.next = m.next,
                              !.err = IF m.next THEN ValidationResponse ELSE m.err]]
            /\ UNCHANGED <<now, db, mails, minted, uuids, faults, hist>>

\* a newcomer u1 without a password row, registered through POST /users;
\* u2 in any state, possibly onboarded before
InitOnboard ==
    /\ InitSignIn
    /\ passwords["u1"] = NoPassword

\* the routes of the /auth group (handler/auth.go:42-49), one request at a time
NextOnboard ==
    \/ Tick
    \/ \E p \in Procs : Return(p)
    \/ /\ AllIdle
       /\ \E p \in Procs, e \in Emails : InitiateEmailVerification(p, e)
    \/ \E p \in Procs : InitiateFindAll(p)
    \/ \E p \in Procs : InitiateUpdateLastSent(p)
    \/ \E p \in Procs : InitiateDelete(p)
    \/ \E p \in Procs : InitiateCreate(p)
    \/ \E p \in Procs : InitiateSendMail(p)
    \/ /\ AllIdle
       /\ \E p \in Procs, raw \in RawSecrets : ValidateEmailVerification(p, raw)
    \/ \E p \in Procs : ValidateDelete(p)
    \/ \E p \in Procs : ValidateMark(p)
    \/ /\ AllIdle
       /\ \E p \in Procs, e \in Emails, pw \in {"pw-right", "pw-wrong"} :
            PostSignInEmail(p, e, pw)
    \/ \E p \in Procs : SignInValidatePassword(p)
    \/ \E p \in Procs : SignInCreateSession(p)
    \/ \E p \in Procs : SignInCreateRefreshToken(p)
    \/ /\ AllIdle
       /\ \E p \in Procs, h \in ClientHeaders, userID \in Users,
             password \in {"pw-right", "short"} :
            PostPassword(p, h, userID, password, password)
    \/ \E p \in Procs : SetUserPasswordCreate(p)

SpecOnboard == InitOnboard /\ [][NextOnboard]_vars

\* C28: when two ValidateEmailVerification calls with the same valid raw
\* secret overlap (neither started after the other had returned nil) and no
\* storage statement fails, at most one of them returns nil, and at most one
\* of them deletes the token row.
C28_AtMostOneConcurrentSuccess ==
    \A p, q \in Procs :
        (/\ p # q /\ faults = 0
         /\ Done(p, "validate") /\ Done(q, "validate")
         /\ call[p].secret = call[q].secret
         /\ ~call[p].afterSuccess /\ ~call[q].afterSuccess)
        => /\ ~(call[p].err = NoErr /\ call[q].err = NoErr)
           /\ ~(call[p].deleted /\ call[q].deleted)

\* C29: a user who has no password row yet can set the first password
\* through POST /auth/password without holding an access token: such a
\* request (no Authorization header, an existing user without a password
\* row, a well-formed body) is not answered 401 Unauthorized.
C29_FirstPasswordNeedsNoToken ==
    \A p \in Procs :
        (/\ call[p].op = "postpassword" /\ call[p].pc = "done"
         /\ call[p].header = NoHeader
         /\ call[p].user \in Users /\ passwords[call[p].user] = NoPassword
         /\ Len(call[p].password) >= 8)
        => Error(call[p].err).status # StatusUnauthorized

\* the limit C30 names for a configured MaxRetries other than -1
ExpectedLimit(configured) == IF configured > 0 THEN configured ELSE 5

\* the state of every initializeDatabase call agrees with C30
C30_Retries ==
    \A p \in Procs :
        LET c == call[p]
            finite == c.cfgMaxRetries # -1
            limit == ExpectedLimit(c.cfgMaxRetries)
        IN c.op = "initdb" =>
            /\ \A k \in 1..Len(c.delays) :
                    c.delays[k] = (IF 2 * k < 30 THEN 2 * k ELSE 30)
            /\ c.pc = "db_attempt" =>
                    /\ c.failed = c.attempt - 1 /\ Len(c.delays) = c.failed
                    /\ finite => c.failed < limit
            /\ c.pc = "db_sleep" =>
                    /\ c.failed = c.attempt /\ Len(c.delays) = c.failed
                    /\ finite => c.failed < limit
            /\ (c.pc = "done" /\ c.err = NoErr) =>
                    /\ c.conn /\ c.failed = c.attempt - 1
                    /\ Len(c.delays) = c.failed
                    /\ finite => c.failed < limit
            /\ (c.pc = "done" /\ c.err # NoErr) =>
                    /\ finite /\ ~c.conn /\ c.failed = limit
                    /\ Len(c.delays) = limit - 1

\* C30: initializeDatabase with MaxRetries # -1 returns: with the connection
\* on the first attempt whose connect and ping both succeed, otherwise with
\* an error after exactly maxRetries failed attempts (MaxRetries when
\* positive, else 5), having waited min(2s * attempt, 30s) after each failed
\* attempt but the last; with MaxRetries = -1 it never returns an error.
C30_InitializeDatabaseTerminates ==
    /\ []C30_Retries
    /\ \A p \in Procs :
        (call[p].op = "initdb" /\ call[p].pc # "done" /\ call[p].cfgMaxRetries # -1)
            ~> (call[p].op = "initdb" /\ call[p].pc = "done")

\* the limit of MaxAttempts is used up: every attempt failed, the last waits
\* were capped at 30 s
C30_Witness ==
    \E p \in Procs :
        /\ Done(p, "initdb") /\ call[p].err # NoErr
        /\ call[p].failed = MaxAttempts
        /\ call[p].delays[Len(call[p].delays)] = maxDelay

============================================================================
